---- MODULE Spec2Model ----
(***************************************************************************)
(* The provider-dispatch streaming client of cosmic-glass (aiService):     *)
(* AiService.generateStreamingResponse, AiService.generateFlowchartResponse*)
(* and the helper streamOpenAICompatResponse.                              *)
(*                                                                         *)
(* Text is modelled as a sequence of one-character strings, so that        *)
(* startsWith / includes / === are computed on the characters.  A response *)
(* body is a sequence of SSE symbols (see "SSE symbols" below).            *)
(***************************************************************************)
EXTENDS Integers, Sequences, FiniteSets, TLC

(***************************************************************************)
(* Bounds of the model.                                                    *)
(***************************************************************************)
\* a model identifier is the concatenation of at most MaxParts words
MaxParts == 2
\* a response body has at most MaxLines lines
MaxLines == 3

(***************************************************************************)
(* Strings.                                                                *)
(***************************************************************************)
\* String.prototype.startsWith
StartsWith(s, p) ==
  /\ Len(s) >= Len(p)
  /\ SubSeq(s, 1, Len(p)) = p

\* String.prototype.includes
Includes(s, p) ==
  \E i \in 1..(Len(s) - Len(p) + 1) : SubSeq(s, i, i + Len(p) - 1) = p

S_gemini == <<"g","e","m","i","n","i">>
S_gemma == <<"g","e","m","m","a">>
S_mistral == <<"m","i","s","t","r","a","l">>
S_codestral == <<"c","o","d","e","s","t","r","a","l">>
S_glm == <<"g","l","m">>
S_llama == <<"l","l","a","m","a">>
S_gpt_oss_20b == <<"o","p","e","n","a","i","/","g","p","t","-","o","s","s","-","2","0","b">>
S_gpt_oss_120b == <<"g","p","t","-","o","s","s","-","1","2","0","b">>
S_qwen == <<"q","w","e","n">>
S_zai_glm == <<"z","a","i","-","g","l","m","-","4",".","6">>

\* the identifiers of the AIModel type, as the model picker lists them
KnownModels ==
  { <<"g","e","m","i","n","i","-","2",".","5","-","p","r","o">>,
    <<"g","e","m","i","n","i","-","2",".","5","-","f","l","a","s","h">>,
    <<"g","e","m","m","a","-","3","-","2","7","b","-","i","t">>,
    <<"m","i","s","t","r","a","l","-","l","a","r","g","e","-","l","a","t","e","s","t">>,
    <<"m","i","s","t","r","a","l","-","m","e","d","i","u","m","-","l","a","t","e","s","t">>,
    <<"m","i","s","t","r","a","l","-","s","m","a","l","l","-","l","a","t","e","s","t">>,
    <<"c","o","d","e","s","t","r","a","l","-","l","a","t","e","s","t">>,
    <<"g","l","m","-","4",".","5","-","f","l","a","s","h">>,
    <<"l","l","a","m","a","-","3",".","3","-","7","0","b","-","v","e","r","s","a","t","i","l","e">>,
    <<"o","p","e","n","a","i","/","g","p","t","-","o","s","s","-","2","0","b">>,
    <<"g","p","t","-","o","s","s","-","1","2","0","b">>,
    <<"q","w","e","n","-","3","-","2","3","5","b","-","a","2","2","b","-","i","n","s","t","r","u","c","t","-","2","5","0","7">>,
    <<"z","a","i","-","g","l","m","-","4",".","6">> }

(***************************************************************************)
(* Routing: the if / else-if chains of the two stream operations.  A       *)
(* branch names the provider, the endpoint, the settings field holding the *)
(* key and the message thrown when that key is falsy.                      *)
(***************************************************************************)
GoogleBranch ==
  [provider |-> "google",
   endpoint |-> "https://generativelanguage.googleapis.com/v1beta/models/${model}:streamGenerateContent",
   keyField |-> "googleApiKey",
   keyError |-> "Google API key not set"]

\* mutant of MistralBranch: the branch reads the Groq key
MistralBranchGroqKey ==
  [provider |-> "mistral",
   endpoint |-> "https://api.mistral.ai/v1/chat/completions",
   keyField |-> "groqApiKey",
   keyError |-> "Mistral API key not set"]

MistralBranch ==
  [provider |-> "mistral",
   endpoint |-> "https://api.mistral.ai/v1/chat/completions",
   keyField |-> "mistralApiKey",
   keyError |-> "Mistral API key not set"]

CerebrasZaiBranch ==
  [provider |-> "cerebras",
   endpoint |-> "https://api.cerebras.ai/v1/chat/completions",
   keyField |-> "cerebrasApiKey",
   keyError |-> "Cerebras API key not set for ZAI GLM"]

ZhipuBranch ==
  [provider |-> "zhipu",
   endpoint |-> "https://open.bigmodel.cn/api/paas/v4/chat/completions",
   keyField |-> "zhipuApiKey",
   keyError |-> "ZhipuAI API key not set"]

GroqBranch ==
  [provider |-> "groq",
   endpoint |-> "https://api.groq.com/openai/v1/chat/completions",
   keyField |-> "groqApiKey",
   keyError |-> "Groq API key not set"]

CerebrasBranch ==
  [provider |-> "cerebras",
   endpoint |-> "https://api.cerebras.ai/v1/chat/completions",
   keyField |-> "cerebrasApiKey",
   keyError |-> "Cerebras API key not set"]

\* the final else of either chain: no provider
NoBranch ==
  [provider |-> "none", endpoint |-> "", keyField |-> "", keyError |-> ""]

\* mutant of RouteChat: the glm test placed after the Groq and Cerebras tests
RouteChatGlmLast(m) ==
  IF StartsWith(m, S_gemini) \/ StartsWith(m, S_gemma) THEN GoogleBranch
  ELSE IF Includes(m, S_mistral) \/ Includes(m, S_codestral) THEN MistralBranch
  ELSE IF Includes(m, S_llama) \/ Includes(m, S_gpt_oss_20b) THEN GroqBranch
  ELSE IF Includes(m, S_gpt_oss_120b) \/ Includes(m, S_qwen) THEN CerebrasBranch
  ELSE IF Includes(m, S_glm)
    THEN (IF m = S_zai_glm THEN CerebrasZaiBranch ELSE ZhipuBranch)
  ELSE NoBranch

\* mutant of RouteChat: the final else falls back to a default provider
RouteChatFallback(m) ==
  IF StartsWith(m, S_gemini) \/ StartsWith(m, S_gemma) THEN GoogleBranch
  ELSE IF Includes(m, S_mistral) \/ Includes(m, S_codestral) THEN MistralBranch
  ELSE IF Includes(m, S_glm)
    THEN (IF m = S_zai_glm THEN CerebrasZaiBranch ELSE ZhipuBranch)
  ELSE IF Includes(m, S_llama) \/ Includes(m, S_gpt_oss_20b) THEN GroqBranch
  ELSE IF Includes(m, S_gpt_oss_120b) \/ Includes(m, S_qwen) THEN CerebrasBranch
  ELSE GoogleBranch

\* generateStreamingResponse: the chain of the chat operation
RouteChat(m) ==
  IF StartsWith(m, S_gemini) \/ StartsWith(m, S_gemma) THEN GoogleBranch
  ELSE IF Includes(m, S_mistral) \/ Includes(m, S_codestral) THEN MistralBranch
  ELSE IF Includes(m, S_glm)
    THEN (IF m = S_zai_glm THEN CerebrasZaiBranch ELSE ZhipuBranch)
  ELSE IF Includes(m, S_llama) \/ Includes(m, S_gpt_oss_20b) THEN GroqBranch
  ELSE IF Includes(m, S_gpt_oss_120b) \/ Includes(m, S_qwen) THEN CerebrasBranch
  ELSE NoBranch

\* mutant of RouteFlowchart: the Cerebras test without the exact identifier
RouteFlowchartNoZai(m) ==
  IF StartsWith(m, S_gemini) \/ StartsWith(m, S_gemma) THEN GoogleBranch
  ELSE IF Includes(m, S_mistral) \/ Includes(m, S_codestral) THEN MistralBranch
  ELSE IF Includes(m, S_llama) \/ Includes(m, S_gpt_oss_20b) THEN GroqBranch
  ELSE IF Includes(m, S_gpt_oss_120b) \/ Includes(m, S_qwen) THEN CerebrasBranch
  ELSE IF Includes(m, S_glm) THEN ZhipuBranch
  ELSE NoBranch

\* generateFlowchartResponse: the chain of the flowchart operation
RouteFlowchart(m) ==
  IF StartsWith(m, S_gemini) \/ StartsWith(m, S_gemma) THEN GoogleBranch
  ELSE IF Includes(m, S_mistral) \/ Includes(m, S_codestral) THEN MistralBranch
  ELSE IF Includes(m, S_llama) \/ Includes(m, S_gpt_oss_20b) THEN GroqBranch
  ELSE IF Includes(m, S_gpt_oss_120b) \/ Includes(m, S_qwen) \/ m = S_zai_glm
    THEN CerebrasBranch
  ELSE IF Includes(m, S_glm) THEN ZhipuBranch
  ELSE NoBranch

(***************************************************************************)
(* SSE symbols.  A response body is a sequence over                        *)
(*   "D"   the literal prefix 'data: '                                     *)
(*   "NL"  the newline character, "CR" a carriage return (whitespace)      *)
(*   "a", "b"  a well-formed JSON event object of the provider's shape     *)
(*             whose text field is "a" / "b"                               *)
(*   "e"   a well-formed JSON object whose text field is empty or absent   *)
(*   "x"   text that is not valid JSON                                     *)
(*   "$"   the literal [DONE]                                              *)
(***************************************************************************)
Prefix == <<"D">>
Whitespace == {"CR"}

\* String.prototype.split('\n'): the pieces between newlines, at least one
RECURSIVE SplitNL(_)
SplitNL(s) ==
  IF \A i \in 1..Len(s) : s[i] # "NL" THEN <<s>>
  ELSE LET i == CHOOSE j \in 1..Len(s) :
                  /\ s[j] = "NL"
                  /\ \A k \in 1..(j - 1) : s[k] # "NL"
       IN <<SubSeq(s, 1, i - 1)>> \o SplitNL(SubSeq(s, i + 1, Len(s)))

\* String.prototype.trim
RECURSIVE Trim(_)
Trim(s) ==
  IF s = <<>> THEN s
  ELSE IF s[1] \in Whitespace THEN Trim(Tail(s))
  ELSE IF s[Len(s)] \in Whitespace THEN Trim(SubSeq(s, 1, Len(s) - 1))
  ELSE s

\* JSON.parse followed by the optional-chained read of the text field
\* (choices[0].delta.content, candidates[0].content.parts[0].text):
\* ok is FALSE when JSON.parse throws, text is "" when the field is
\* absent or empty.  JSON.parse skips surrounding whitespace itself.
ParseEvent(data) ==
  LET t == Trim(data) IN
    IF t \in {<<"a">>, <<"b">>} THEN [ok |-> TRUE, text |-> t[1]]
    ELSE IF t = <<"e">> THEN [ok |-> TRUE, text |-> ""]
    ELSE [ok |-> FALSE, text |-> ""]

\* what the body of the for loop does with one line
Skip == [kind |-> "skip", text |-> ""]
Return == [kind |-> "return", text |-> ""]
Yield(t) == [kind |-> "yield", text |-> t]

\* mutant of OpenAILine: the [DONE] payload is not told from the others
OpenAILineNoDone(line) ==
  IF StartsWith(line, Prefix)
    THEN LET json == ParseEvent(Trim(Tail(line))) IN
           IF json.ok /\ json.text # "" THEN Yield(json.text) ELSE Skip
    ELSE Skip

\* streamOpenAICompatResponse: one iteration of for (const line of lines)
OpenAILine(line) ==
  IF StartsWith(line, Prefix)
    THEN LET data == Trim(Tail(line)) IN
           IF data = <<"$">> THEN Return
           ELSE LET json == ParseEvent(data) IN
                  IF json.ok /\ json.text # "" THEN Yield(json.text) ELSE Skip
    ELSE Skip

\* mutant of GoogleLine: a payload JSON.parse rejects ends the loop
GoogleLineStopOnBadJson(line) ==
  IF StartsWith(line, Prefix)
    THEN LET json == ParseEvent(Tail(line)) IN
           IF ~json.ok THEN Return
           ELSE IF json.text # "" THEN Yield(json.text) ELSE Skip
    ELSE Skip

\* the Google loops: one iteration of for (const line of lines)
GoogleLine(line) ==
  IF StartsWith(line, Prefix)
    THEN LET json == ParseEvent(Tail(line)) IN
           IF json.ok /\ json.text # "" THEN Yield(json.text) ELSE Skip
    ELSE Skip

(***************************************************************************)
(* Errors: the name of the thrown object, the text of its message          *)
(* template and the values interpolated into it.                           *)
(***************************************************************************)
Err(name, text, args) == [name |-> name, text |-> text, args |-> args]
NoErr == Err("", "", <<>>)

\* what fetch / reader.read() reject with once controller.abort() ran
AbortError == Err("AbortError", "signal is aborted without reason", <<>>)
TimedOut == Err("Error", "Request timed out", <<>>)
\* what fetch / reader.read() reject with on a network failure
NetworkError == Err("TypeError", "Failed to fetch", <<>>)

\* the catch block of streamOpenAICompatResponse
OpenAICatch(e) == IF e.name = "AbortError" THEN TimedOut ELSE e

\* mutant of GoogleChatCatch: the abort error is rethrown as it is
GoogleChatCatchRethrow(e) == e

\* the catch block around the Google chat request
GoogleChatCatch(e) == IF e.name = "AbortError" THEN TimedOut ELSE e

\* the catch block around the Google flowchart request
GoogleFlowchartCatch(e) == e

\* the error thrown on !response.ok
OpenAIHttpError(r) ==
  Err("Error", "API Error: ${status} ${statusText}",
      <<ToString(r.status), r.statusText>>)

GoogleChatHttpError(r) ==
  Err("Error", "Google API Error: ${status} - ${errorBody}",
      <<ToString(r.status), r.text>>)

GoogleFlowchartHttpError(r) ==
  Err("Error", "${errorBody}", <<r.text>>)

BodyNullError == Err("Error", "Response body is null", <<>>)
NoMessagesError == Err("Error", "No messages provided", <<>>)
UnsupportedChatError ==
  Err("Error", "Model ${model} not supported or API key missing.", <<>>)
UnsupportedFlowchartError ==
  Err("Error", "Model ${model} not supported for flowchart generation.", <<>>)

(***************************************************************************)
(* Program constants.                                                      *)
(***************************************************************************)
DefaultTimeoutMs == 60000
GoogleChatTimeoutMs == 30000
GoogleFlowchartTimeoutMs == 60000
MaxTokens == 8192

FlowchartPrompt ==
  "You are a helpful assistant that generates flowcharts in valid JSON format. Do not output markdown code blocks, just raw JSON."
ChatAck == "Understood. I will follow this role."
FlowchartAck == "Understood. I will output raw JSON."

\* tutorPrompts: the registered persona templates
TutorPrompts ==
  [standard |-> "prompt:standard", mentor |-> "prompt:mentor",
   cosmic |-> "prompt:cosmic", ayanokoji |-> "prompt:ayanokoji"]

\* a settings key is falsy when it is '' or undefined
Undefined == "<undefined>"

\* mutant of Falsy: only the empty string is taken as missing
FalsyOnlyEmpty(k) == k = ""

Falsy(k) == k \in {"", Undefined}

(***************************************************************************)
(* State.                                                                  *)
(***************************************************************************)
VARIABLES
  settings,      \* AiService.settings
  op,            \* the stream operation called: "none", "chat", "flowchart"
  messages,      \* its argument, the ordered history
  pc,            \* where the generator stands (see below)
  model,         \* const model = this.settings.selectedModel
  systemPrompt,  \* const systemPrompt
  branch,        \* the branch of the if / else-if chain that was taken
  path,          \* the transport in use: "none", "openai", "google"
  requests,      \* the HTTP requests issued by fetch, in order
  timer,         \* the setTimeout timer: "unset", "pending", "cleared", "fired"
  timeoutMs,     \* the delay the timer was started with
  nTimers,       \* the number of setTimeout calls
  aborted,       \* controller.signal.aborted
  resp,          \* the response fetch resolved with
  body,          \* the response body the server streams
  pos,           \* how many of its symbols the reader has delivered
  reader,        \* the body reader's lock: "none", "locked", "released"
  buffer,        \* let buffer (the carry-over of streamOpenAICompatResponse)
  lines,         \* the lines the for loop has still to visit
  yielded,       \* the fragments the consumer has received, in order
  err,           \* the error the call threw to its caller
  quizPc,        \* where generateQuiz stands (see below)
  conversation,  \* its argument
  quizRequests,  \* the HTTP requests generateQuiz issued, in order
  quizTimer,     \* its setTimeout timer: "unset", "pending", "cleared", "fired"
  quizAborted,   \* its controller.signal.aborted
  reply,         \* what the response of generateQuiz held
  session,       \* the StudySession generateQuiz returned
  quizErr        \* the error generateQuiz rejected with

\* pc: "idle"     no call yet
\*     "created"  the generator object exists, its body has not started
\*     "fetching" suspended at await fetch(...)
\*     "reading"  suspended at await reader.read()
\*     "loop"     inside for (const line of lines)
\*     "yielded"  suspended at yield, the fragment handed to the consumer
\*     "done"     the generator completed, "failed" it threw,
\*     "returned" the consumer ended it at a yield (generator.return())

\* quizPc: "idle"     no call yet
\*         "fetching" suspended at await fetch(...)
\*         "json"     suspended at await response.json()
\*         "done"     the promise resolved with a StudySession
\*         "failed"   the promise rejected

quizVars ==
  <<quizPc, conversation, quizRequests, quizTimer, quizAborted, reply, session,
    quizErr>>

vars ==
  <<settings, op, messages, pc, model, systemPrompt, branch, path, requests,
    timer, timeoutMs, nTimers, aborted, resp, body, pos, reader, buffer,
    lines, yielded, err, quizVars>>

startVars == <<model, systemPrompt, branch, path, requests, timeoutMs, nTimers>>
streamVars == <<body, pos, reader, buffer, lines, yielded>>

NoResp == [status |-> 0, statusText |-> "", text |-> "", hasBody |-> FALSE]

\* response.ok
Ok(r) == r.status >= 200 /\ r.status <= 299

\* the responses a server can answer with, the streamed body apart
Responses ==
  { [status |-> 200, statusText |-> "OK", text |-> "", hasBody |-> TRUE],
    [status |-> 204, statusText |-> "No Content", text |-> "", hasBody |-> FALSE],
    [status |-> 429, statusText |-> "Too Many Requests", text |-> "rate limited",
     hasBody |-> TRUE],
    [status |-> 500, statusText |-> "Internal Server Error",
     text |-> "upstream failure", hasBody |-> TRUE] }

\* mutant of GetSystemPrompt: the lookup has no default
GetSystemPromptNoDefault(st) ==
  IF st.selectedTutorMode \in DOMAIN TutorPrompts
    THEN TutorPrompts[st.selectedTutorMode]
    ELSE Undefined

\* getSystemPrompt: tutorPrompts[mode] || tutorPrompts.standard
GetSystemPrompt(st) ==
  IF st.selectedTutorMode \in DOMAIN TutorPrompts
    THEN TutorPrompts[st.selectedTutorMode]
    ELSE TutorPrompts.standard

\* messages.map(m => ({ role: m.role, content: m.content }))
UserMessages(msgs) ==
  [i \in 1..Len(msgs) |-> [role |-> msgs[i].role, content |-> msgs[i].content]]

\* mutant of GoogleMessages: the history keeps its own role names
GoogleMessagesKeepRoles(sp, ack, msgs) ==
  <<[role |-> "user", text |-> sp], [role |-> "model", text |-> ack]>>
  \o [i \in 1..Len(msgs) |-> [role |-> msgs[i].role, text |-> msgs[i].content]]

\* googleMessages: the two synthetic turns, then the history remapped
GoogleMessages(sp, ack, msgs) ==
  <<[role |-> "user", text |-> sp], [role |-> "model", text |-> ack]>>
  \o [i \in 1..Len(msgs) |->
        [role |-> IF msgs[i].role = "assistant" THEN "model" ELSE "user",
         text |-> msgs[i].content]]

\* the request fetch sends for a Google stream
GoogleRequest(key, m, contents, genConfig) ==
  [endpoint |-> GoogleBranch.endpoint, urlModel |-> m, urlKey |-> key,
   bearer |-> "",
   body |-> [shape |-> "google", contents |-> contents,
             generationConfig |-> genConfig]]

\* the request streamOpenAICompatResponse sends
OpenAIRequest(url, apiKey, m, msgs, sp) ==
  [endpoint |-> url, urlModel |-> <<>>, urlKey |-> "", bearer |-> apiKey,
   body |-> [shape |-> "openai", model |-> m,
             messages |-> <<[role |-> "system", content |-> sp]>> \o msgs,
             stream |-> TRUE, max_tokens |-> MaxTokens, temperature |-> "0.2"]]

\* mutant of Throw: the failed call is run again from its start
ThrowRetry(e) ==
  /\ pc' = "created"
  /\ err' = e

\* the thrown error leaves the generator
Throw(e) ==
  /\ pc' = "failed"
  /\ err' = e

\* new AbortController(); setTimeout(() => controller.abort(), ms); fetch(...)
Fetch(p, req, ms) ==
  /\ path' = p
  /\ requests' = Append(requests, req)
  /\ timer' = "pending"
  /\ timeoutMs' = ms
  /\ nTimers' = nTimers + 1
  /\ pc' = "fetching"
  /\ err' = err

\* the part of either operation that follows the routing: the credential
\* check of the branch, then the request
Dispatch(o, br, m, sp, msgs) ==
  IF br = NoBranch
    THEN /\ Throw(IF o = "chat" THEN UnsupportedChatError
                                ELSE UnsupportedFlowchartError)
         /\ UNCHANGED <<path, requests, timer, timeoutMs, nTimers>>
  ELSE IF Falsy(settings[br.keyField])
    THEN /\ Throw(Err("Error", br.keyError, <<>>))
         /\ UNCHANGED <<path, requests, timer, timeoutMs, nTimers>>
  ELSE IF br = GoogleBranch
    THEN IF o = "chat"
           THEN Fetch("google",
                      GoogleRequest(settings.googleApiKey, m,
                                    GoogleMessages(sp, ChatAck, msgs), "none"),
                      GoogleChatTimeoutMs)
           ELSE Fetch("google",
                      GoogleRequest(settings.googleApiKey, m,
                                    GoogleMessages(sp, FlowchartAck, msgs),
                                    "responseMimeType: application/json"),
                      GoogleFlowchartTimeoutMs)
  ELSE Fetch("openai",
             OpenAIRequest(br.endpoint, settings[br.keyField], m, msgs, sp),
             DefaultTimeoutMs)

(***************************************************************************)
(* The caller.                                                             *)
(***************************************************************************)
\* aiService.generateStreamingResponse(messages): creates the generator
CallChat(histories) ==
  /\ UNCHANGED quizVars
  /\ pc = "idle"
  /\ \E h \in histories : messages' = h
  /\ op' = "chat"
  /\ pc' = "created"
  /\ UNCHANGED <<settings, timer, aborted, resp, err>>
  /\ UNCHANGED startVars
  /\ UNCHANGED streamVars

\* aiService.generateFlowchartResponse(messages): creates the generator
CallFlowchart(histories) ==
  /\ UNCHANGED quizVars
  /\ pc = "idle"
  /\ \E h \in histories : messages' = h
  /\ op' = "flowchart"
  /\ pc' = "created"
  /\ UNCHANGED <<settings, timer, aborted, resp, err>>
  /\ UNCHANGED startVars
  /\ UNCHANGED streamVars

(***************************************************************************)
(* The first pull: the generator body runs up to its first await.          *)
(***************************************************************************)
\* mutant of NoMessages: the history is not checked
NoMessagesUnchecked(msgs) == FALSE

\* !messages || messages.length === 0
NoMessages(msgs) == msgs = <<>>

\* generateStreamingResponse, from its first line to await fetch
StartChat ==
  /\ UNCHANGED quizVars
  /\ pc = "created"
  /\ op = "chat"
  /\ IF NoMessages(messages)
       THEN /\ Throw(NoMessagesError)
            /\ UNCHANGED <<timer>>
            /\ UNCHANGED startVars
       ELSE LET sp == GetSystemPrompt(settings)
                m == settings.selectedModel
                br == RouteChat(m)
            IN /\ model' = m
               /\ systemPrompt' = sp
               /\ branch' = br
               /\ Dispatch("chat", br, m, sp, UserMessages(messages))
  /\ UNCHANGED <<settings, op, messages, aborted, resp>>
  /\ UNCHANGED streamVars

\* generateFlowchartResponse, from its first line to await fetch
StartFlowchart ==
  /\ UNCHANGED quizVars
  /\ pc = "created"
  /\ op = "flowchart"
  /\ LET m == settings.selectedModel
         br == RouteFlowchart(m)
     IN /\ model' = m
        /\ systemPrompt' = FlowchartPrompt
        /\ branch' = br
        /\ Dispatch("flowchart", br, m, FlowchartPrompt, UserMessages(messages))
  /\ UNCHANGED <<settings, op, messages, aborted, resp>>
  /\ UNCHANGED streamVars

(***************************************************************************)
(* The error handling of the three stream paths.                           *)
(***************************************************************************)
\* the error thrown on !response.ok, by path
HttpError(p, o, r) ==
  IF p = "openai" THEN OpenAIHttpError(r)
  ELSE IF o = "chat" THEN GoogleChatHttpError(r)
  ELSE GoogleFlowchartHttpError(r)

\* what the catch block around the request rethrows, by path
Caught(p, o, e) ==
  IF p = "openai" THEN OpenAICatch(e)
  ELSE IF o = "chat" THEN GoogleChatCatch(e)
  ELSE GoogleFlowchartCatch(e)

\* mutant of Release: the finally block is missing, no path releases
ReleaseNever(p, r) == r

\* reader.releaseLock() in the finally of streamOpenAICompatResponse; the
\* Google loops have no finally and leave the reader as it is
Release(p, r) == IF p = "openai" THEN "released" ELSE r

\* mutant of NextPc: the next read is started with lines still to visit
NextPcReadAhead(ls) == "reading"

\* where the generator stands once the for loop has ls left to visit
NextPc(ls) == IF ls = <<>> THEN "reading" ELSE "loop"

Front(s) == SubSeq(s, 1, Len(s) - 1)
Last(s) == s[Len(s)]

(***************************************************************************)
(* The timer and the network.                                              *)
(***************************************************************************)
\* mutant of ClearTimeout: the timer is left running
ClearTimeoutMissing(t) == t

\* clearTimeout(timeoutId): a pending timer is cancelled
ClearTimeout(t) == IF t = "pending" THEN "cleared" ELSE t

\* the setTimeout callback: () => controller.abort()
TimerFire ==
  /\ UNCHANGED quizVars
  /\ timer = "pending"
  /\ timer' = "fired"
  /\ aborted' = TRUE
  /\ UNCHANGED <<settings, op, messages, pc, resp, err>>
  /\ UNCHANGED startVars
  /\ UNCHANGED streamVars

\* the aborted fetch rejects; the catch block clears the timer and rethrows
FetchAbort ==
  /\ UNCHANGED quizVars
  /\ pc = "fetching"
  /\ aborted
  /\ Throw(Caught(path, op, AbortError))
  /\ UNCHANGED <<settings, op, messages, timer, aborted, resp>>
  /\ UNCHANGED startVars
  /\ UNCHANGED streamVars

\* mutant of FetchReject: the catch block rethrows without clearTimeout
FetchRejectNoClear ==
  /\ UNCHANGED quizVars
  /\ pc = "fetching"
  /\ ~aborted
  /\ Throw(Caught(path, op, NetworkError))
  /\ UNCHANGED <<settings, op, messages, timer, aborted, resp>>
  /\ UNCHANGED startVars
  /\ UNCHANGED streamVars

\* fetch rejects on a network failure; the catch block clears the timer
FetchReject ==
  /\ UNCHANGED quizVars
  /\ pc = "fetching"
  /\ ~aborted
  /\ timer' = ClearTimeout(timer)
  /\ Throw(Caught(path, op, NetworkError))
  /\ UNCHANGED <<settings, op, messages, aborted, resp>>
  /\ UNCHANGED startVars
  /\ UNCHANGED streamVars

\* fetch resolves with the response headers: clearTimeout, the status check,
\* the body check, getReader
FetchResolve(bodies) ==
  /\ UNCHANGED quizVars
  /\ pc = "fetching"
  /\ ~aborted
  /\ timer' = ClearTimeout(timer)
  /\ \E r \in Responses :
       /\ resp' = r
       /\ IF ~Ok(r)
            THEN /\ Throw(Caught(path, op, HttpError(path, op, r)))
                 /\ UNCHANGED streamVars
          ELSE IF ~r.hasBody
            THEN /\ Throw(Caught(path, op, BodyNullError))
                 /\ UNCHANGED streamVars
          ELSE /\ \E b \in bodies : body' = b
               /\ pos' = 0
               /\ reader' = "locked"
               /\ buffer' = <<>>
               /\ pc' = "reading"
               /\ UNCHANGED <<lines, yielded, err>>
  /\ UNCHANGED <<settings, op, messages, aborted>>
  /\ UNCHANGED startVars

\* mutant of Pieces: the unterminated tail of the previous read is dropped
PiecesNoCarry(buf, chunk) == SplitNL(chunk)

\* buffer += decoder.decode(value); buffer.split('\n')
Pieces(buf, chunk) == SplitNL(buf \o chunk)

\* reader.read() resolves with the next k symbols of the body; the chunk is
\* decoded and split into lines
ReadChunk ==
  /\ UNCHANGED quizVars
  /\ pc = "reading"
  /\ \E k \in 1..(Len(body) - pos) :
       LET chunk == SubSeq(body, pos + 1, pos + k) IN
         /\ pos' = pos + k
         /\ IF path = "openai"
              THEN LET pieces == Pieces(buffer, chunk) IN
                     /\ buffer' = Last(pieces)
                     /\ lines' = Front(pieces)
                     /\ pc' = NextPc(Front(pieces))
              ELSE /\ lines' = SplitNL(chunk)
                   /\ pc' = "loop"
                   /\ UNCHANGED buffer
  /\ UNCHANGED <<settings, op, messages, timer, aborted, resp, body, reader,
                 yielded, err>>
  /\ UNCHANGED startVars

\* reader.read() resolves with done: the while loop breaks
ReadDone ==
  /\ UNCHANGED quizVars
  /\ pc = "reading"
  /\ pos = Len(body)
  /\ reader' = Release(path, reader)
  /\ pc' = "done"
  /\ UNCHANGED <<settings, op, messages, timer, aborted, resp, body, pos,
                 buffer, lines, yielded, err>>
  /\ UNCHANGED startVars

\* reader.read() rejects on a network failure
ReadError ==
  /\ UNCHANGED quizVars
  /\ pc = "reading"
  /\ reader' = Release(path, reader)
  /\ Throw(Caught(path, op, NetworkError))
  /\ UNCHANGED <<settings, op, messages, timer, aborted, resp, body, pos,
                 buffer, lines, yielded>>
  /\ UNCHANGED startVars

(***************************************************************************)
(* The for loop over the lines of one read, and the consumer.              *)
(***************************************************************************)
\* one iteration of for (const line of lines)
ProcessLine ==
  /\ UNCHANGED quizVars
  /\ pc = "loop"
  /\ LET out == IF path = "openai" THEN OpenAILine(Head(lines))
                                   ELSE GoogleLine(Head(lines))
     IN /\ lines' = Tail(lines)
        /\ IF out.kind = "yield"
             THEN /\ yielded' = Append(yielded, out.text)
                  /\ pc' = "yielded"
                  /\ UNCHANGED reader
           ELSE IF out.kind = "return"
             THEN /\ reader' = Release(path, reader)
                  /\ pc' = "done"
                  /\ UNCHANGED yielded
           ELSE /\ pc' = NextPc(Tail(lines))
                /\ UNCHANGED <<reader, yielded>>
  /\ UNCHANGED <<settings, op, messages, timer, aborted, resp, body, pos,
                 buffer, err>>
  /\ UNCHANGED startVars

\* the consumer asks for the next fragment: the generator resumes after yield
ConsumerPull ==
  /\ UNCHANGED quizVars
  /\ pc = "yielded"
  /\ pc' = NextPc(lines)
  /\ UNCHANGED <<settings, op, messages, timer, aborted, resp, err>>
  /\ UNCHANGED startVars
  /\ UNCHANGED streamVars

\* the consumer abandons the sequence at a yield: generator.return() runs
\* the pending finally blocks
ConsumerReturn ==
  /\ UNCHANGED quizVars
  /\ pc = "yielded"
  /\ pc' = "returned"
  /\ reader' = Release(path, reader)
  /\ UNCHANGED <<settings, op, messages, timer, aborted, resp, body, pos,
                 buffer, lines, yielded, err>>
  /\ UNCHANGED startVars

(***************************************************************************)
(* Inputs.                                                                 *)
(***************************************************************************)
Turn(r, c) == [role |-> r, content |-> c]

\* the histories a caller passes
Histories ==
  { <<>>,
    <<Turn("user", "q1")>>,
    <<Turn("user", "q1"), Turn("assistant", "a1"), Turn("user", "q2")>> }

\* the lines a server sends
LineTemplates ==
  { <<"D", "a">>, <<"D", "b">>, <<"D", "e">>, <<"D", "x">>, <<"D", "$">>,
    <<"D", "$", "CR">>, <<"a">> }

\* the lines joined by newlines; the last one is newline-terminated iff term
RECURSIVE Render(_, _)
Render(ls, term) ==
  IF ls = <<>> THEN <<>>
  ELSE IF Len(ls) = 1 THEN (IF term THEN Head(ls) \o <<"NL">> ELSE Head(ls))
  ELSE Head(ls) \o <<"NL">> \o Render(Tail(ls), term)

\* every body of at most n lines
BodiesUpTo(n) ==
  { Render(ls, term) :
      ls \in UNION { [1..k -> LineTemplates] : k \in 0..n },
      term \in BOOLEAN }

Bodies == BodiesUpTo(MaxLines)

\* the bodies of the routing specification: one event
FewBodies == { Render(<<<<"D", "a">>>>, TRUE) }

KeyFields ==
  {"googleApiKey", "zhipuApiKey", "mistralApiKey", "groqApiKey", "cerebrasApiKey"}

\* the key a user configured for each field
Keys ==
  [googleApiKey |-> "key-google", zhipuApiKey |-> "key-zhipu",
   mistralApiKey |-> "key-mistral", groqApiKey |-> "key-groq",
   cerebrasApiKey |-> "key-cerebras"]

\* every field set; one field '' or undefined and the others set; one field
\* set and the others ''; every field '' or undefined
KeyConfigs ==
  { [f \in KeyFields |-> Keys[f]] }
  \cup { [f \in KeyFields |-> IF f = g THEN v ELSE Keys[f]] :
            g \in KeyFields, v \in {"", Undefined} }
  \cup { [f \in KeyFields |-> IF f = g THEN Keys[f] ELSE ""] : g \in KeyFields }
  \cup { [f \in KeyFields |-> v] : v \in {"", Undefined} }

AllKeys == [f \in KeyFields |-> Keys[f]]

\* an APISettings value
Settings(keys, m, mode) ==
  keys @@ [selectedModel |-> m, selectedTutorMode |-> mode]

\* the words model identifiers are built from: the substrings the chains
\* test for, and a filler
S_filler == <<"x", "-">>
Words ==
  { S_gemini, S_gemma, S_mistral, S_codestral, S_glm, S_llama, S_gpt_oss_20b,
    S_gpt_oss_120b, S_qwen, S_zai_glm, S_filler }

RECURSIVE Flatten(_)
Flatten(ws) == IF ws = <<>> THEN <<>> ELSE Head(ws) \o Flatten(Tail(ws))

\* the known identifiers and every concatenation of at most MaxParts words
ModelIds ==
  KnownModels
  \cup { Flatten(ws) : ws \in UNION { [1..k -> Words] : k \in 0..MaxParts } }

Gemini25Flash == <<"g","e","m","i","n","i","-","2",".","5","-","f","l","a","s","h">>
MistralLargeLatest ==
  <<"m","i","s","t","r","a","l","-","l","a","r","g","e","-","l","a","t","e","s","t">>

(***************************************************************************)
(* generateQuiz.  JSON values are records [t, v]: t the type, v a sequence *)
(* (the characters of a string, the elements of an array) or, for an      *)
(* object, the record of its fields.                                       *)
(***************************************************************************)
JUndefined == [t |-> "undefined", v |-> <<>>]
JNull == [t |-> "null", v |-> <<>>]
JStr(s) == [t |-> "string", v |-> s]
JArr(a) == [t |-> "array", v |-> a]
JObj(f) == [t |-> "object", v |-> f]

\* j.name: undefined when j is no object or has no such field
Field(j, name) ==
  IF j.t = "object" /\ name \in DOMAIN j.v THEN j.v[name] ELSE JUndefined

\* ToBoolean(j)
Truthy(j) ==
  /\ j.t \notin {"undefined", "null"}
  /\ j.t = "string" => j.v # <<>>

\* Array.isArray(j)
IsArray(j) == j.t = "array"

\* String.prototype.toLowerCase, on the letters the inputs use
LowerCase ==
  [A |-> "a", B |-> "b", C |-> "c", D |-> "d", E |-> "e", P |-> "p",
   Q |-> "q", Y |-> "y", N |-> "n", M |-> "m", U |-> "u"]
ToLowerChar(c) == IF c \in DOMAIN LowerCase THEN LowerCase[c] ELSE c
ToLowerCase(s) == [i \in 1..Len(s) |-> ToLowerChar(s[i])]

\* String.prototype.toUpperCase of one character
ToUpperChar(c) ==
  IF \E u \in DOMAIN LowerCase : LowerCase[u] = c
    THEN CHOOSE u \in DOMAIN LowerCase : LowerCase[u] = c
    ELSE c

\* String.prototype.trim of a string whose only whitespace is the space
RECURSIVE TrimSpaces(_)
TrimSpaces(s) ==
  IF s = <<>> THEN s
  ELSE IF s[1] = " " THEN TrimSpaces(Tail(s))
  ELSE IF s[Len(s)] = " " THEN TrimSpaces(SubSeq(s, 1, Len(s) - 1))
  ELSE s

\* String(j) of a string value
StringOf(j) == j.v

\* options.indexOf(answer): the first position (from 0) of an element
\* strictly equal to answer, -1 when there is none
RECURSIVE IndexOf(_, _)
IndexOf(a, x) ==
  IF a = <<>> THEN -1
  ELSE IF Head(a) = x THEN 0
  ELSE LET r == IndexOf(Tail(a), x) IN IF r = -1 THEN -1 ELSE r + 1

\* String(opt).trim().toLowerCase() === String(answer).trim().toLowerCase()
Alike(opt, answer) ==
  ToLowerCase(TrimSpaces(StringOf(opt)))
    = ToLowerCase(TrimSpaces(StringOf(answer)))

\* options.findIndex(opt => ...): the first position (from 0) of an element
\* alike to answer, -1 when there is none
RECURSIVE FindIndexAlike(_, _)
FindIndexAlike(a, x) ==
  IF a = <<>> THEN -1
  ELSE IF Alike(Head(a), x) THEN 0
  ELSE LET r == FindIndexAlike(Tail(a), x) IN IF r = -1 THEN -1 ELSE r + 1

\* /^[A-D]$/i.test(answer)
IsLetterAD(s) == Len(s) = 1 /\ ToUpperChar(s[1]) \in {"A", "B", "C", "D"}

\* answer.toUpperCase().charCodeAt(0) - 65
LetterIndex(s) ==
  CASE ToUpperChar(s[1]) = "A" -> 0
    [] ToUpperChar(s[1]) = "B" -> 1
    [] ToUpperChar(s[1]) = "C" -> 2
    [] ToUpperChar(s[1]) = "D" -> 3

DefaultOptions ==
  <<JStr(<<"Y","e","s">>), JStr(<<"N","o">>), JStr(<<"M","a","y","b","e">>),
    JStr(<<"U","n","s","u","r","e">>)>>

\* Array.isArray(q.options) ? q.options : [...]
OptionsOf(q) ==
  IF IsArray(Field(q, "options")) THEN Field(q, "options").v ELSE DefaultOptions

\* mutant of CorrectIndex: the letter rule is tried before the text matches
CorrectIndexLetterFirst(options, answer) ==
  IF ~Truthy(answer) THEN 0
  ELSE IF IsLetterAD(answer.v) THEN LetterIndex(answer.v)
  ELSE LET exact == IndexOf(options, answer)
           loose == FindIndexAlike(options, answer)
       IN IF exact # -1 THEN exact ELSE IF loose # -1 THEN loose ELSE 0

\* the correctIndex the map callback computes for one raw question
CorrectIndex(options, answer) ==
  IF ~Truthy(answer) THEN 0
  ELSE LET exact == IndexOf(options, answer)
           loose == IF exact = -1 THEN FindIndexAlike(options, answer) ELSE exact
           letter == IF loose = -1 /\ IsLetterAD(answer.v)
                       THEN LetterIndex(answer.v) ELSE loose
       IN IF letter = -1 THEN 0 ELSE letter

\* "Untitled Question"
UntitledQuestion ==
  JStr(<<"U","n","t","i","t","l","e","d"," ","Q","u","e","s","t","i","o","n">>)
\* 'No explanation provided.'
NoExplanation ==
  JStr(<<"N","o"," ","e","x","p","l","a","n","a","t","i","o","n"," ",
         "p","r","o","v","i","d","e","d",".">>)

\* j || fallback
OrElse(j, fallback) == IF Truthy(j) THEN j ELSE fallback

\* the QuizQuestion the map callback builds (its id is a fresh random string)
QuizQuestion(q) ==
  [id |-> "generateId()",
   question |-> OrElse(Field(q, "question"), UntitledQuestion),
   options |-> OptionsOf(q),
   correctAnswer |-> CorrectIndex(OptionsOf(q), Field(q, "answer")),
   explanation |-> OrElse(Field(q, "explanation"), NoExplanation)]

NoArray == [found |-> FALSE, items |-> <<>>]
Found(a) == [found |-> TRUE, items |-> a.v]

\* mutant of QuestionsArray: the 'quiz' field is looked at before 'questions'
QuestionsArrayQuizFirst(parsed) ==
  IF IsArray(parsed) THEN Found(parsed)
  ELSE IF Truthy(parsed) /\ Truthy(Field(parsed, "quiz"))
          /\ IsArray(Field(parsed, "quiz"))
    THEN Found(Field(parsed, "quiz"))
  ELSE IF Truthy(parsed) /\ Truthy(Field(parsed, "questions"))
          /\ IsArray(Field(parsed, "questions"))
    THEN Found(Field(parsed, "questions"))
  ELSE NoArray

\* the if / else-if chain that selects questionsArray
QuestionsArray(parsed) ==
  IF IsArray(parsed) THEN Found(parsed)
  ELSE IF Truthy(parsed) /\ Truthy(Field(parsed, "questions"))
          /\ IsArray(Field(parsed, "questions"))
    THEN Found(Field(parsed, "questions"))
  ELSE IF Truthy(parsed) /\ Truthy(Field(parsed, "quiz"))
          /\ IsArray(Field(parsed, "quiz"))
    THEN Found(Field(parsed, "quiz"))
  ELSE NoArray

QuizKeyError ==
  Err("Error", "Google API key must be configured to generate quizzes.", <<>>)
QuizTooFewError ==
  Err("Error", "Conversation must have at least 2 messages to generate a quiz.",
      <<>>)
QuizHttpError(r) == Err("Error", "${errorBody}", <<r.text>>)
QuizJsonError == Err("SyntaxError", "Unexpected token", <<>>)
QuizNoContentError == Err("Error", "No content returned from AI", <<>>)
QuizParseError == Err("Error", "Failed to parse AI response as JSON", <<>>)
QuizStructureError ==
  Err("Error", "AI returned invalid quiz structure (missing questions array)",
      <<>>)
QuizEmptyError == Err("Error", "No questions generated.", <<>>)
\* reading a property of null or undefined inside the map callback
QuizTypeError == Err("TypeError", "Cannot read properties of null", <<>>)

QuizEndpoint ==
  "https://generativelanguage.googleapis.com/v1beta/models/gemini-2.0-flash:generateContent"
QuizPrompt == "Based on the following conversation, create a multiple-choice quiz"

NoSession == [id |-> "", conversationId |-> "", questions |-> <<>>,
              currentQuestionIndex |-> 0, score |-> 0, totalQuestions |-> 0,
              isCompleted |-> FALSE]

NoReply == [kind |-> "none", parsed |-> JUndefined]

\* mutant of TooFewMessages: a single message is accepted
TooFewMessagesOffByOne(msgs) == Len(msgs) < 1

\* !conversation.messages || conversation.messages.length < 2
TooFewMessages(msgs) == Len(msgs) < 2

\* the request generateQuiz sends: the model of the URL is fixed
QuizRequest(key, msgs) ==
  [endpoint |-> QuizEndpoint, urlKey |-> key,
   body |-> [contents |-> <<[role |-> "user", prompt |-> QuizPrompt,
                             conversation |-> msgs]>>,
             generationConfig |->
               "responseMimeType: application/json, temperature: 0.3"]]

\* the promise of generateQuiz rejects
QuizThrow(e) ==
  /\ quizPc' = "failed"
  /\ quizErr' = e

streamAll ==
  <<op, messages, pc, model, systemPrompt, branch, path, requests, timer,
    timeoutMs, nTimers, aborted, resp, body, pos, reader, buffer, lines,
    yielded, err>>

\* aiService.generateQuiz(conversation): an async function, it runs at the
\* call up to await fetch
CallQuiz(conversations) ==
  /\ quizPc = "idle"
  /\ \E c \in conversations :
       /\ conversation' = c
       /\ IF Falsy(settings.googleApiKey)
            THEN /\ QuizThrow(QuizKeyError)
                 /\ UNCHANGED <<quizRequests, quizTimer>>
          ELSE IF TooFewMessages(c.messages)
            THEN /\ QuizThrow(QuizTooFewError)
                 /\ UNCHANGED <<quizRequests, quizTimer>>
          ELSE /\ quizRequests' =
                    Append(quizRequests,
                           QuizRequest(settings.googleApiKey, c.messages))
               /\ quizTimer' = "pending"
               /\ quizPc' = "fetching"
               /\ UNCHANGED quizErr
  /\ UNCHANGED <<settings, quizAborted, reply, session>>
  /\ UNCHANGED streamAll

\* the setTimeout callback of generateQuiz: () => controller.abort()
QuizTimerFire ==
  /\ quizTimer = "pending"
  /\ quizTimer' = "fired"
  /\ quizAborted' = TRUE
  /\ UNCHANGED <<settings, quizPc, conversation, quizRequests, reply, session,
                 quizErr>>
  /\ UNCHANGED streamAll

\* the aborted fetch rejects; the catch block rethrows the error as it is
QuizFetchAbort ==
  /\ quizPc = "fetching"
  /\ quizAborted
  /\ QuizThrow(AbortError)
  /\ UNCHANGED <<settings, conversation, quizRequests, quizTimer, quizAborted,
                 reply, session>>
  /\ UNCHANGED streamAll

\* fetch rejects on a network failure
QuizFetchReject ==
  /\ quizPc = "fetching"
  /\ ~quizAborted
  /\ quizTimer' = ClearTimeout(quizTimer)
  /\ QuizThrow(NetworkError)
  /\ UNCHANGED <<settings, conversation, quizRequests, quizAborted, reply,
                 session>>
  /\ UNCHANGED streamAll

\* fetch resolves: clearTimeout, then the status check
QuizFetchResolve ==
  /\ quizPc = "fetching"
  /\ ~quizAborted
  /\ quizTimer' = ClearTimeout(quizTimer)
  /\ \E r \in Responses :
       IF ~Ok(r) THEN QuizThrow(QuizHttpError(r))
       ELSE /\ quizPc' = "json"
            /\ UNCHANGED quizErr
  /\ UNCHANGED <<settings, conversation, quizRequests, quizAborted, reply,
                 session>>
  /\ UNCHANGED streamAll

\* the StudySession built from the selected, non-empty questions array
StudySession(conv, items) ==
  [id |-> "generateId()", conversationId |-> conv.id,
   questions |-> [i \in 1..Len(items) |-> QuizQuestion(items[i])],
   currentQuestionIndex |-> 0, score |-> 0, totalQuestions |-> Len(items),
   isCompleted |-> FALSE]

\* response.json() settles; the text is parsed, the questions array selected
\* and mapped, the session returned
QuizBody(replies) ==
  /\ quizPc = "json"
  /\ \E rp \in replies :
       /\ reply' = rp
       /\ IF rp.kind = "not json" THEN
            QuizThrow(QuizJsonError) /\ UNCHANGED session
          ELSE IF rp.kind = "no text" THEN
            QuizThrow(QuizNoContentError) /\ UNCHANGED session
          ELSE IF rp.kind = "text not json" THEN
            QuizThrow(QuizParseError) /\ UNCHANGED session
          ELSE LET qa == QuestionsArray(rp.parsed) IN
            IF ~qa.found THEN
              QuizThrow(QuizStructureError) /\ UNCHANGED session
            ELSE IF qa.items = <<>> THEN
              QuizThrow(QuizEmptyError) /\ UNCHANGED session
            ELSE IF \E i \in 1..Len(qa.items) :
                      qa.items[i].t \in {"null", "undefined"} THEN
              QuizThrow(QuizTypeError) /\ UNCHANGED session
            ELSE /\ session' = StudySession(conversation, qa.items)
                 /\ quizPc' = "done"
                 /\ UNCHANGED quizErr
  /\ UNCHANGED <<settings, conversation, quizRequests, quizTimer, quizAborted>>
  /\ UNCHANGED streamAll

(***************************************************************************)
(* The inputs of generateQuiz.                                             *)
(***************************************************************************)
MaxQuestions == 2

NoConversation == [id |-> "", messages |-> <<>>]

\* conversations of no, one, two and three messages
Conversations ==
  { [id |-> "c0", messages |-> <<>>],
    [id |-> "c1", messages |-> <<Turn("user", "q1")>>],
    [id |-> "c2", messages |-> <<Turn("user", "q1"), Turn("assistant", "a1")>>],
    [id |-> "c3", messages |-> <<Turn("user", "q1"), Turn("assistant", "a1"),
                                Turn("user", "q2")>>] }

\* one-letter and longer option texts
OptText(c) == JStr(<<c>>)

OptionLists ==
  { <<OptText("A"), OptText("B"), OptText("C"), OptText("D")>>,
    <<OptText("D"), OptText("C"), OptText("B"), OptText("A")>>,
    <<OptText("p"), JStr(<<" ", "Q", " ">>), OptText("q"), OptText("m")>>,
    <<OptText("p"), OptText("q")>>,
    <<OptText("p"), JStr(<<>>), OptText("q"), OptText("m")>> }

Answers ==
  { JUndefined, JStr(<<>>), OptText("A"), OptText("B"), OptText("C"),
    OptText("D"), OptText("b"), OptText("d"), OptText("E"), OptText("q"),
    OptText("Q"), JStr(<<"q", " ">>), JStr(<<" ", "c">>),
    JStr(<<"m", "a", "y", "b", "e">>) }

QText == JStr(<<"w", "h", "y">>)

\* raw questions: every answer against every option list and against missing
\* options; one without question and explanation
RawQuestions ==
  { JObj([question |-> QText, options |-> JArr(o), answer |-> a,
          explanation |-> QText]) : o \in OptionLists, a \in Answers }
  \cup { JObj([question |-> QText, answer |-> a]) : a \in Answers }
  \cup { JObj([options |-> JArr(o)]) : o \in OptionLists }

FewQuestions ==
  { JObj([question |-> QText,
          options |-> JArr(<<OptText("D"), OptText("C"), OptText("B"), OptText("A")>>),
          answer |-> OptText("B"), explanation |-> QText]),
    JObj([question |-> QText, answer |-> OptText("C")]),
    JNull }

\* the arrays a reply can hold: empty, one raw question, and up to
\* MaxQuestions of a few
QuestionLists ==
  { <<q>> : q \in RawQuestions }
  \cup UNION { [1..k -> FewQuestions] : k \in 0..MaxQuestions }

OneList == <<CHOOSE q \in FewQuestions : Field(q, "answer") = OptText("B")>>
OtherList == <<CHOOSE q \in FewQuestions : Field(q, "answer") = OptText("C")>>

\* the values the text of a reply can parse to
ParsedValues ==
  { JArr(l) : l \in QuestionLists }
  \cup { JObj([questions |-> JArr(l)]) : l \in QuestionLists }
  \cup { JObj([quiz |-> JArr(l)]) : l \in QuestionLists }
  \cup { JObj([questions |-> JArr(OneList), quiz |-> JArr(OtherList)]),
         JObj([questions |-> JArr(<<>>), quiz |-> JArr(OtherList)]),
         JObj([questions |-> QText, quiz |-> JArr(OtherList)]),
         JObj([questions |-> JNull, quiz |-> JArr(OtherList)]),
         JObj([items |-> JArr(OneList)]),
         JObj([questions |-> QText]),
         JObj([quiz |-> JObj([questions |-> JArr(OneList)])]),
         JNull, QText, JStr(<<>>) }

QuizReplies ==
  { [kind |-> k, parsed |-> JUndefined] :
      k \in {"not json", "no text", "text not json"} }
  \cup { [kind |-> "parsed", parsed |-> v] : v \in ParsedValues }

(***************************************************************************)
(* Specifications.                                                         *)
(***************************************************************************)
InitWith(S) ==
  /\ settings \in S
  /\ op = "none"
  /\ messages = <<>>
  /\ pc = "idle"
  /\ model = <<>>
  /\ systemPrompt = ""
  /\ branch = NoBranch
  /\ path = "none"
  /\ requests = <<>>
  /\ timer = "unset"
  /\ timeoutMs = 0
  /\ nTimers = 0
  /\ aborted = FALSE
  /\ resp = NoResp
  /\ body = <<>>
  /\ pos = 0
  /\ reader = "none"
  /\ buffer = <<>>
  /\ lines = <<>>
  /\ yielded = <<>>
  /\ err = NoErr
  /\ quizPc = "idle"
  /\ conversation = NoConversation
  /\ quizRequests = <<>>
  /\ quizTimer = "unset"
  /\ quizAborted = FALSE
  /\ reply = NoReply
  /\ session = NoSession
  /\ quizErr = NoErr

\* the streams: one Google model and one OpenAI-compatible model, every key
\* configured, every body
StreamSettings ==
  { Settings(AllKeys, m, "standard") : m \in {Gemini25Flash, MistralLargeLatest} }

Init == InitWith(StreamSettings)

Next ==
  \/ CallChat({<<Turn("user", "q1")>>})
  \/ CallFlowchart({<<Turn("user", "q1")>>})
  \/ StartChat
  \/ StartFlowchart
  \/ TimerFire
  \/ FetchAbort
  \/ FetchReject
  \/ FetchResolve(Bodies)
  \/ ReadChunk
  \/ ReadDone
  \/ ReadError
  \/ ProcessLine
  \/ ConsumerPull
  \/ ConsumerReturn

Spec == Init /\ [][Next]_vars

\* the routing: every model identifier, every key configuration, one body
RouteSettings ==
  { Settings(k, m, "standard") : k \in KeyConfigs, m \in ModelIds }

InitRoute == InitWith(RouteSettings)

NextRoute ==
  \/ CallChat({<<>>, <<Turn("user", "q1")>>})
  \/ CallFlowchart({<<>>, <<Turn("user", "q1")>>})
  \/ StartChat
  \/ StartFlowchart
  \/ TimerFire
  \/ FetchAbort
  \/ FetchReject
  \/ FetchResolve(FewBodies)
  \/ ReadChunk
  \/ ReadDone
  \/ ReadError
  \/ ProcessLine
  \/ ConsumerPull
  \/ ConsumerReturn

SpecRoute == InitRoute /\ [][NextRoute]_vars

\* generateQuiz: the Google key set, empty and undefined, two selected models
QuizSettings ==
  { Settings(k, m, "standard") :
      k \in { AllKeys,
              [f \in KeyFields |-> IF f = "googleApiKey" THEN "" ELSE Keys[f]],
              [f \in KeyFields |-> IF f = "googleApiKey" THEN Undefined ELSE Keys[f]],
              [f \in KeyFields |-> IF f = "googleApiKey" THEN Keys[f] ELSE ""] },
      m \in {Gemini25Flash, MistralLargeLatest} }

InitQuiz == InitWith(QuizSettings)

NextQuiz ==
  \/ CallQuiz(Conversations)
  \/ QuizTimerFire
  \/ QuizFetchAbort
  \/ QuizFetchReject
  \/ QuizFetchResolve
  \/ QuizBody(QuizReplies)

SpecQuiz == InitQuiz /\ [][NextQuiz]_vars


(***************************************************************************)
(* Properties of the routing (checked under SpecRoute).                    *)
(***************************************************************************)
\* the generator body has started
Started == pc \notin {"idle", "created"}

\* the call has gone through its if / else-if chain
Routed == Started /\ (op = "chat" => messages # <<>>)

\* the provider an endpoint belongs to
EndpointProvider(url) ==
  IF url = GoogleBranch.endpoint THEN "google"
  ELSE IF url = MistralBranch.endpoint THEN "mistral"
  ELSE IF url = ZhipuBranch.endpoint THEN "zhipu"
  ELSE IF url = GroqBranch.endpoint THEN "groq"
  ELSE IF url = CerebrasBranch.endpoint THEN "cerebras"
  ELSE "unknown"

\* the messages that report a missing credential, by provider
MissingKeyTexts ==
  [google |-> {"Google API key not set"},
   mistral |-> {"Mistral API key not set"},
   zhipu |-> {"ZhipuAI API key not set"},
   groq |-> {"Groq API key not set"},
   cerebras |-> {"Cerebras API key not set", "Cerebras API key not set for ZAI GLM"}]

ProviderNames == {"google", "mistral", "zhipu", "groq", "cerebras"}

KeyFieldOf ==
  [google |-> "googleApiKey", mistral |-> "mistralApiKey", zhipu |-> "zhipuApiKey",
   groq |-> "groqApiKey", cerebras |-> "cerebrasApiKey"]

UnsupportedErrors == {UnsupportedChatError, UnsupportedFlowchartError}

\* what the caller can observe of the dispatch: the provider whose endpoint
\* the request went to, or whose credential is reported missing, or "none"
\* for the unsupported-model error
Outcome ==
  IF requests # <<>> THEN EndpointProvider(requests[1].endpoint)
  ELSE IF err \in UnsupportedErrors THEN "none"
  ELSE IF \E p \in ProviderNames : err.text \in MissingKeyTexts[p]
    THEN CHOOSE p \in ProviderNames : err.text \in MissingKeyTexts[p]
  ELSE "unknown"

\* the ordered rules of the router; exact20b tells whether rule 4 asks for
\* the identifier to be exactly 'openai/gpt-oss-20b' or to contain it
RuleMatches(i, m, exact20b) ==
  CASE i = 1 -> StartsWith(m, S_gemini) \/ StartsWith(m, S_gemma)
    [] i = 2 -> Includes(m, S_mistral) \/ Includes(m, S_codestral)
    [] i = 3 -> Includes(m, S_glm)
    [] i = 4 -> \/ Includes(m, S_llama)
                \/ (IF exact20b THEN m = S_gpt_oss_20b ELSE Includes(m, S_gpt_oss_20b))
    [] i = 5 -> Includes(m, S_gpt_oss_120b) \/ Includes(m, S_qwen)

RuleProvider(i, m) ==
  CASE i = 1 -> "google"
    [] i = 2 -> "mistral"
    [] i = 3 -> IF m = S_zai_glm THEN "cerebras" ELSE "zhipu"
    [] i = 4 -> "groq"
    [] i = 5 -> "cerebras"

FirstMatch(m, exact20b) ==
  IF \E i \in 1..5 : RuleMatches(i, m, exact20b)
    THEN LET i == CHOOSE j \in 1..5 :
                    /\ RuleMatches(j, m, exact20b)
                    /\ \A k \in 1..(j - 1) : ~RuleMatches(k, m, exact20b)
         IN RuleProvider(i, m)
    ELSE "none"

\* C1 as amended: the chat operation resolves every identifier by first match
\* over the ordered rules, rule 4 being "contains 'llama' or contains
\* 'openai/gpt-oss-20b'"; the outcome is a function of the identifier alone,
\* whatever keys are configured.
C1_ChatFirstMatch ==
  (Routed /\ op = "chat") => Outcome = FirstMatch(model, FALSE)

\* C1 as stated: rule 4 is "contains 'llama' or is 'openai/gpt-oss-20b'".
C1_AsClaimed ==
  (Routed /\ op = "chat") => Outcome = FirstMatch(model, TRUE)

\* C1 witness: a chat request for an identifier that matches the glm rule and
\* the llama rule went to Zhipu.
C1_Witness ==
  /\ op = "chat"
  /\ pc = "fetching"
  /\ Includes(model, S_glm)
  /\ Includes(model, S_llama)
  /\ requests[1].endpoint = ZhipuBranch.endpoint

\* the tests an operation makes before its glm test
EarlierRule(o, m) ==
  \/ StartsWith(m, S_gemini) \/ StartsWith(m, S_gemma)
  \/ Includes(m, S_mistral) \/ Includes(m, S_codestral)
  \/ /\ o = "flowchart"
     /\ \/ Includes(m, S_llama) \/ Includes(m, S_gpt_oss_20b)
        \/ Includes(m, S_gpt_oss_120b) \/ Includes(m, S_qwen)

\* C2: in both operations 'zai-glm-4.6' goes to the Cerebras endpoint with the
\* Cerebras key and never to Zhipu; every other identifier containing 'glm'
\* that matches no test the operation makes before its glm test goes to Zhipu
\* with the Zhipu key.
C2_ZaiGlmToCerebras ==
  Routed =>
    /\ model = S_zai_glm =>
         /\ Outcome = "cerebras"
         /\ requests # <<>> =>
              /\ requests[1].endpoint = CerebrasBranch.endpoint
              /\ requests[1].bearer = settings.cerebrasApiKey
              /\ requests[1].bearer = Keys.cerebrasApiKey
    /\ (Includes(model, S_glm) /\ model # S_zai_glm /\ ~EarlierRule(op, model)) =>
         /\ Outcome = "zhipu"
         /\ requests # <<>> =>
              /\ requests[1].endpoint = ZhipuBranch.endpoint
              /\ requests[1].bearer = Keys.zhipuApiKey

\* C2 witness: a flowchart request for 'zai-glm-4.6' went to Cerebras.
C2_Witness ==
  /\ op = "flowchart"
  /\ model = S_zai_glm
  /\ pc = "fetching"
  /\ requests[1].endpoint = CerebrasBranch.endpoint
  /\ requests[1].bearer = Keys.cerebrasApiKey

\* C3 as stated: the flowchart operation dispatches every identifier to the
\* provider, endpoint and key the chat operation dispatches it to, and fails
\* with the unsupported-model error on the same identifiers.
C3_FlowchartDispatchesAsChat ==
  (Routed /\ op = "flowchart") =>
    /\ Outcome = RouteChat(model).provider
    /\ requests # <<>> =>
         /\ requests[1].endpoint = RouteChat(model).endpoint
         /\ requests[1].bearer \in {"", settings[RouteChat(model).keyField]}

\* the identifier passes none of the tests of the chains
MatchesNoRule(m) ==
  /\ ~StartsWith(m, S_gemini) /\ ~StartsWith(m, S_gemma)
  /\ ~Includes(m, S_mistral) /\ ~Includes(m, S_codestral)
  /\ ~Includes(m, S_glm)
  /\ ~Includes(m, S_llama) /\ ~Includes(m, S_gpt_oss_20b)
  /\ ~Includes(m, S_gpt_oss_120b) /\ ~Includes(m, S_qwen)

\* C4: when the identifier matches no rule, either operation has failed with
\* its unsupported-model error as soon as it has run, no HTTP request was
\* issued and no timer was started; the error occurs for no other identifier.
C4_UnsupportedBeforeNetwork ==
  Routed =>
    /\ MatchesNoRule(model) =>
         /\ pc = "failed"
         /\ err = (IF op = "chat" THEN UnsupportedChatError
                                  ELSE UnsupportedFlowchartError)
         /\ requests = <<>>
         /\ nTimers = 0
         /\ timer = "unset"
         /\ yielded = <<>>
    /\ err \in UnsupportedErrors => MatchesNoRule(model)

\* C4 witness: a flowchart call for an identifier made of filler failed with
\* the unsupported-model error.
C4_Witness ==
  /\ op = "flowchart"
  /\ model = S_filler \o S_filler
  /\ pc = "failed"
  /\ err = UnsupportedFlowchartError

\* the key is '' or undefined
KeyMissing(k) == k = "" \/ k = Undefined

\* C5: when the key of the provider the call resolved to is empty or absent,
\* the call has failed with that provider's missing-credential error (not the
\* unsupported-model error), no fragment was yielded and no HTTP request was
\* issued; when the key is configured the request is issued.
C5_MissingCredential ==
  (Routed /\ branch # NoBranch) =>
    IF KeyMissing(settings[KeyFieldOf[branch.provider]])
      THEN /\ pc = "failed"
           /\ err.name = "Error"
           /\ err.text \in MissingKeyTexts[branch.provider]
           /\ err \notin UnsupportedErrors
           /\ yielded = <<>>
           /\ requests = <<>>
           /\ nTimers = 0
      ELSE /\ Len(requests) = 1
           /\ \A p \in ProviderNames : err.text \notin MissingKeyTexts[p]

\* C5 witness: a flowchart call resolved to Zhipu with the Zhipu key
\* undefined failed with the Zhipu missing-credential error.
C5_Witness ==
  /\ op = "flowchart"
  /\ branch = ZhipuBranch
  /\ settings.zhipuApiKey = Undefined
  /\ pc = "failed"
  /\ err.text = "ZhipuAI API key not set"
  /\ requests = <<>>


(***************************************************************************)
(* Properties of the transports (checked under Spec).                      *)
(***************************************************************************)
Terminated == pc \in {"done", "failed", "returned"}

IsDataLine(l) == StartsWith(l, Prefix)
IsDoneLine(l) == IsDataLine(l) /\ Trim(Tail(l)) = <<"$">>

\* the text a line carries: that of its event object, "" when it has none
LineText(l) ==
  IF IsDataLine(l) /\ Trim(Tail(l)) \in {<<"a">>, <<"b">>} THEN Trim(Tail(l))[1]
  ELSE ""

\* the payload of a data line is not valid JSON
IsMalformedLine(l) ==
  IsDataLine(l) /\ Trim(Tail(l)) \notin {<<"a">>, <<"b">>, <<"e">>}

\* the lines of a body: its pieces, a trailing empty piece dropped
LinesOf(b) ==
  LET ps == SplitNL(b) IN IF Last(ps) = <<>> THEN Front(ps) ELSE ps

RECURSIVE BeforeDone(_)
BeforeDone(ls) ==
  IF ls = <<>> \/ IsDoneLine(Head(ls)) THEN <<>>
  ELSE <<Head(ls)>> \o BeforeDone(Tail(ls))

RECURSIVE Texts(_)
Texts(ls) ==
  IF ls = <<>> THEN <<>>
  ELSE (IF LineText(Head(ls)) = "" THEN <<>> ELSE <<LineText(Head(ls))>>)
       \o Texts(Tail(ls))

IsPrefixOf(s, t) == Len(s) <= Len(t) /\ SubSeq(t, 1, Len(s)) = s

\* a body made of 'data: ' lines, one of them [DONE]
DataLinesWithDone(b) ==
  /\ \A i \in 1..Len(LinesOf(b)) : IsDataLine(LinesOf(b)[i])
  /\ \E i \in 1..Len(LinesOf(b)) : IsDoneLine(LinesOf(b)[i])

\* C6: for an OpenAI-compatible body of 'data: ' lines with a [DONE] line, the
\* fragments yielded are at every moment a prefix of the non-empty contents of
\* the lines before [DONE], in order; when the call completes they are exactly
\* those, the reader is released and no error occurred; the only failure is a
\* network failure of a read.
C6_OpenAIDone ==
  (path = "openai" /\ reader # "none" /\ DataLinesWithDone(body)) =>
    /\ IsPrefixOf(yielded, Texts(BeforeDone(LinesOf(body))))
    /\ pc = "done" =>
         /\ yielded = Texts(BeforeDone(LinesOf(body)))
         /\ err = NoErr
         /\ reader = "released"
    /\ pc = "failed" => err = NetworkError

\* C6 witness: the body data: a, data: b, data: [DONE] completed with the
\* fragments a then b.
C6_Witness ==
  /\ path = "openai"
  /\ body = <<"D", "a", "NL", "D", "b", "NL", "D", "$", "NL">>
  /\ pc = "done"
  /\ yielded = <<"a", "b">>

\* C7: in both transports a step of the line loop on a 'data: ' line whose
\* payload is not valid JSON (and, for the OpenAI-compatible transport, is not
\* [DONE]) raises no error, yields nothing and leaves the loop running on the
\* lines that follow; a step on a valid line with text yields that text,
\* whatever was skipped before; and a call that is reading fails only by a
\* network failure.
C7_MalformedLineSkipped ==
  /\ [][ (pc = "loop" /\ IsMalformedLine(Head(lines))
           /\ ~(path = "openai" /\ IsDoneLine(Head(lines))))
         => /\ pc' = (IF Tail(lines) = <<>> THEN "reading" ELSE "loop")
            /\ lines' = Tail(lines)
            /\ yielded' = yielded
            /\ err' = NoErr ]_vars
  /\ [][ (pc = "loop" /\ LineText(Head(lines)) # "")
         => /\ yielded' = Append(yielded, LineText(Head(lines)))
            /\ lines' = Tail(lines)
            /\ err' = NoErr ]_vars
  /\ [](reader # "none" /\ pc = "failed" => err = NetworkError)

\* C7 witness: a Google stream whose first line is malformed completed with
\* the fragment of the valid line after it.
C7_Witness ==
  /\ path = "google"
  /\ body = <<"D", "x", "NL", "D", "a", "NL">>
  /\ pc = "done"
  /\ yielded = <<"a">>
  /\ err = NoErr

Range(s) == { s[i] : i \in 1..Len(s) }

\* C8 as stated: on a non-2xx status every stream path fails with an error
\* whose message holds the status code and the response body text, and yields
\* no fragment.
C8_HttpErrorCarriesStatusAndBody ==
  (resp # NoResp /\ ~(resp.status >= 200 /\ resp.status <= 299)) =>
    /\ pc = "failed"
    /\ ToString(resp.status) \in Range(err.args)
    /\ resp.text \in Range(err.args)
    /\ yielded = <<>>

\* C9 as stated: on every stream path, when the timer fired before the
\* headers arrived the call fails with the 'Request timed out' error and
\* yields no fragment.
C9_TimeoutIsTimedOutError ==
  (timer = "fired" /\ pc = "failed") =>
    /\ aborted
    /\ err = TimedOut
    /\ yielded = <<>>

(***************************************************************************)
(* Liveness.  The timer callback, the generator's own steps and the        *)
(* caller's pulls are scheduled by the event loop, hence weakly fair; what  *)
(* the server does (answering, sending, closing, failing) is not.          *)
(***************************************************************************)
LiveBodies == BodiesUpTo(1)

NextLive ==
  \/ CallChat({<<Turn("user", "q1")>>})
  \/ CallFlowchart({<<Turn("user", "q1")>>})
  \/ StartChat
  \/ StartFlowchart
  \/ TimerFire
  \/ FetchAbort
  \/ FetchReject
  \/ FetchResolve(LiveBodies)
  \/ ReadChunk
  \/ ReadDone
  \/ ReadError
  \/ ProcessLine
  \/ ConsumerPull
  \/ ConsumerReturn

SpecLive ==
  /\ Init
  /\ [][NextLive]_vars
  /\ WF_vars(CallChat({<<Turn("user", "q1")>>}) \/ CallFlowchart({<<Turn("user", "q1")>>}))
  /\ WF_vars(StartChat)
  /\ WF_vars(StartFlowchart)
  /\ WF_vars(TimerFire)
  /\ WF_vars(FetchAbort)
  /\ WF_vars(ProcessLine)
  /\ WF_vars(ConsumerPull)

InReadLoop == pc \in {"reading", "loop", "yielded"}

\* C11: in streamOpenAICompatResponse the reader, once acquired, stays locked
\* exactly while the read loop runs, and is released when the call has ended,
\* by whichever exit: end of body, [DONE], a read error, or the consumer
\* abandoning the sequence at a yield.
C11_OpenAIReaderReleased ==
  path = "openai" =>
    /\ reader = "locked" <=> InReadLoop
    /\ (Terminated /\ resp.hasBody /\ Ok(resp)) => reader = "released"
    /\ reader = "none" => (resp = NoResp \/ ~Ok(resp) \/ ~resp.hasBody)

\* C11 witness: the consumer abandoned an OpenAI-compatible stream at a yield
\* and the reader was released.
C11_Witness ==
  /\ path = "openai"
  /\ pc = "returned"
  /\ yielded # <<>>
  /\ reader = "released"

\* C12 as stated: on the Google paths too the reader, once acquired, is
\* released when the call has ended.
C12_GoogleReaderReleased ==
  (path = "google" /\ Terminated /\ reader # "none") => reader = "released"

\* C13 as stated: a Google chat stream that completed yielded exactly the
\* text of every event of the body, in order, however the body was split
\* into reads.
C13_GoogleRoundTrip ==
  (path = "google" /\ op = "chat" /\ pc = "done") =>
    yielded = Texts(LinesOf(body))

\* C14 as stated: when the caller has stopped a stream in flight, the request
\* was aborted through the abort controller, the reader is not held and the
\* call ended with an error that tells the stop from a normal end.
C14_ExternalStopAborts ==
  pc = "returned" =>
    /\ aborted
    /\ reader # "locked"
    /\ err # NoErr

(***************************************************************************)
(* The empty history (checked under SpecRoute).                            *)
(***************************************************************************)
\* C15: a chat call with an empty history fails with 'No messages provided'
\* whatever the selected model and the configured keys, before the model is
\* read and routed, before any credential check, timer or HTTP request.
C15_NoMessagesFirst ==
  (op = "chat" /\ messages = <<>> /\ Started) =>
    /\ pc = "failed"
    /\ err = NoMessagesError
    /\ model = <<>>
    /\ branch = NoBranch
    /\ path = "none"
    /\ requests = <<>>
    /\ nTimers = 0
    /\ timer = "unset"
    /\ yielded = <<>>

\* C15 witness: a chat call with an empty history failed with 'No messages
\* provided' although the Google key of the selected Google model is missing.
C15_Witness ==
  /\ op = "chat"
  /\ messages = <<>>
  /\ settings.selectedModel = Gemini25Flash
  /\ settings.googleApiKey = Undefined
  /\ pc = "failed"
  /\ err = NoMessagesError

(***************************************************************************)
(* The carry-over buffer and the timer (checked under Spec).               *)
(***************************************************************************)
\* the fragments an OpenAI-compatible body holds: the texts of its
\* newline-terminated lines that come before [DONE]
OpenAIFragments(b) == Texts(BeforeDone(Front(SplitNL(b))))

\* C19: in streamOpenAICompatResponse the fragments yielded are at every
\* moment a prefix of, and at completion equal to, a sequence that depends
\* on the body alone, whatever the reads were: the texts of its
\* newline-terminated lines before [DONE]; the carry-over buffer holds the
\* unterminated tail of what has been read so far, and a final line with no
\* newline yields nothing.
C19_SplitIndependent ==
  (path = "openai" /\ reader # "none") =>
    /\ IsPrefixOf(yielded, OpenAIFragments(body))
    /\ pc = "done" => yielded = OpenAIFragments(body)
    /\ buffer = Last(SplitNL(SubSeq(body, 1, pos)))

\* C19 witness: the body data: a, newline, data: b without a newline
\* completed with the fragment a only, data: b left in the buffer.
C19_Witness ==
  /\ path = "openai"
  /\ body = <<"D", "a", "NL", "D", "b">>
  /\ pc = "done"
  /\ yielded = <<"a">>
  /\ buffer = <<"D", "b">>

\* C20: on every stream path, once fetch has resolved with a response the
\* timer is cancelled; it is never pending while the body is read, and the
\* request is aborted only while no response has arrived.
C20_TimerClearedAtHeaders ==
  /\ resp # NoResp => timer = "cleared"
  /\ InReadLoop => (timer = "cleared" /\ ~aborted)
  /\ aborted => (resp = NoResp /\ reader = "none" /\ timer = "fired")
  /\ timer = "pending" => pc = "fetching"

\* C20 witness: a Google flowchart stream is reading its body, the timer
\* cancelled.
C20_Witness ==
  /\ path = "google"
  /\ op = "flowchart"
  /\ pc = "reading"
  /\ pos > 0
  /\ timer = "cleared"

(***************************************************************************)
(* Properties of generateQuiz (checked under SpecQuiz).                    *)
(***************************************************************************)
\* C16: generateQuiz fails with the key error, no request issued and no timer
\* started, when the Google key is empty or absent, whatever the conversation;
\* else with the too-few-messages error, again with no request, when the
\* conversation has fewer than two messages; else it issues exactly one
\* request, to the Google endpoint with the Google key.  None of this reads
\* the selected model.
C16_QuizPreconditions ==
  quizPc # "idle" =>
    IF KeyMissing(settings.googleApiKey)
      THEN /\ quizPc = "failed"
           /\ quizErr = QuizKeyError
           /\ quizRequests = <<>>
           /\ quizTimer = "unset"
    ELSE IF Len(conversation.messages) < 2
      THEN /\ quizPc = "failed"
           /\ quizErr = QuizTooFewError
           /\ quizRequests = <<>>
           /\ quizTimer = "unset"
    ELSE /\ Len(quizRequests) = 1
         /\ quizRequests[1].endpoint = QuizEndpoint
         /\ quizRequests[1].urlKey = settings.googleApiKey
         /\ quizErr \notin {QuizKeyError, QuizTooFewError}

\* C16 witness: with a Mistral model selected, no Google key and a
\* conversation of one message, generateQuiz failed with the key error.
C16_Witness ==
  /\ settings.selectedModel = MistralLargeLatest
  /\ settings.googleApiKey = ""
  /\ Len(conversation.messages) = 1
  /\ quizPc = "failed"
  /\ quizErr = QuizKeyError
  /\ quizRequests = <<>>

\* the value has a field of that name holding an array
HasArray(j, name) ==
  j.t = "object" /\ name \in DOMAIN j.v /\ j.v[name].t = "array"

\* the array the claim selects: the value itself, else its 'questions'
\* array, else its 'quiz' array, else none
SelectedArray(j) ==
  IF j.t = "array" THEN j
  ELSE IF HasArray(j, "questions") THEN j.v.questions
  ELSE IF HasArray(j, "quiz") THEN j.v.quiz
  ELSE JUndefined

\* C17: when the text of the reply parsed, generateQuiz has ended; with no
\* array selected (bare array, 'questions' array, 'quiz' array, in that
\* order) it failed with the structure error; with an empty selected array it
\* failed with 'No questions generated.'; else it returned a session with one
\* question per element of the selected array, unless an element is null;
\* and whenever it failed no session, not even a partial one, was returned.
C17_QuizNormalization ==
  /\ quizPc = "failed" => session = NoSession
  /\ reply.kind = "parsed" =>
       LET sel == SelectedArray(reply.parsed) IN
         /\ quizPc \in {"done", "failed"}
         /\ IF sel = JUndefined THEN quizPc = "failed" /\ quizErr = QuizStructureError
            ELSE IF sel.v = <<>> THEN quizPc = "failed" /\ quizErr = QuizEmptyError
            ELSE IF \E i \in 1..Len(sel.v) : sel.v[i] = JNull
              THEN quizPc = "failed" /\ quizErr = QuizTypeError
            ELSE /\ quizPc = "done"
                 /\ session.totalQuestions = Len(sel.v)
                 /\ Len(session.questions) = Len(sel.v)
                 /\ \A i \in 1..Len(sel.v) :
                      /\ session.questions[i].options = OptionsOf(sel.v[i])
                      /\ session.questions[i].question =
                           (IF "question" \in DOMAIN sel.v[i].v
                              THEN sel.v[i].v.question ELSE UntitledQuestion)

\* C17 witness: a reply with both a 'questions' and a 'quiz' array gave a
\* session built from the 'questions' array.
C17_Witness ==
  /\ reply.kind = "parsed"
  /\ HasArray(reply.parsed, "questions")
  /\ HasArray(reply.parsed, "quiz")
  /\ reply.parsed.v.questions.v # <<>>
  /\ quizPc = "done"
  /\ session.questions[1].correctAnswer = 2

MinOf(S) == CHOOSE x \in S : \A y \in S : x <= y

\* the positions (from 0) of the options equal to the answer
ExactMatches(opts, ans) == { i - 1 : i \in { k \in 1..Len(opts) : opts[k] = ans } }

\* the positions (from 0) of the options equal to the answer once both are
\* trimmed and lower-cased
LooseMatches(opts, ans) ==
  { i - 1 : i \in { k \in 1..Len(opts) :
                      ToLowerCase(TrimSpaces(opts[k].v))
                        = ToLowerCase(TrimSpaces(ans.v)) } }

\* the position a single letter A-D (either case) stands for
LetterPositions ==
  [A |-> 0, a |-> 0, B |-> 1, b |-> 1, C |-> 2, c |-> 2, D |-> 3, d |-> 3]

\* the index the claim gives: the first rule that succeeds, else 0; an
\* answer that is absent or the empty string gives 0
ClaimedIndex(opts, ans) ==
  IF ans \in {JUndefined, JNull, JStr(<<>>)} THEN 0
  ELSE IF ExactMatches(opts, ans) # {} THEN MinOf(ExactMatches(opts, ans))
  ELSE IF LooseMatches(opts, ans) # {} THEN MinOf(LooseMatches(opts, ans))
  ELSE IF Len(ans.v) = 1 /\ ans.v[1] \in DOMAIN LetterPositions
    THEN LetterPositions[ans.v[1]]
  ELSE 0

\* C18: in a returned session the correctAnswer of every question is the
\* index given by the first rule that succeeds on its raw question: exact
\* match of the answer among the options, else match after trimming and
\* lower-casing, else the position of a single letter A-D, else 0 (also when
\* there is no answer); a text match takes precedence over the letter rule.
C18_AnswerResolution ==
  (quizPc = "done") =>
    LET raw == SelectedArray(reply.parsed).v IN
      \A i \in 1..Len(raw) :
        LET opts == IF HasArray(raw[i], "options") THEN raw[i].v.options.v
                    ELSE DefaultOptions
            ans == IF "answer" \in DOMAIN raw[i].v THEN raw[i].v.answer
                   ELSE JUndefined
        IN session.questions[i].correctAnswer = ClaimedIndex(opts, ans)

\* C18 witness: the answer 'B' against the options D, C, B, A resolved to 2 by
\* the exact match (the letter rule would give 1), and in the same session
\* the answer 'C' with no matching option text resolved to 2 by the letter
\* rule.
C18_Witness ==
  /\ quizPc = "done"
  /\ reply.parsed = JArr(OneList \o OtherList)
  /\ session.questions[1].correctAnswer = 2
  /\ session.questions[2].correctAnswer = 2
  /\ session.questions[2].options = DefaultOptions

(***************************************************************************)
(* The request and its timer (checked under Spec).                         *)
(***************************************************************************)
\* C21 as stated: the delay of the timer depends on the operation alone:
\* 30 s for every chat call, 60 s for every flowchart call, whatever the
\* provider.
C21_TimeoutByOperation ==
  timer # "unset" =>
    timeoutMs = (IF op = "chat" THEN 30000 ELSE 60000)

\* C22 as stated: an OpenAI-compatible request carries the model id, the
\* system turn followed by the history, stream = true and max_tokens = 8192,
\* and carries temperature 0.2 exactly when the operation is the flowchart
\* generation.
C22_TemperatureOnlyForFlowchart ==
  \A i \in 1..Len(requests) :
    requests[i].body.shape = "openai" =>
      /\ requests[i].body.model = model
      /\ requests[i].body.messages =
           <<[role |-> "system", content |-> systemPrompt]>>
           \o UserMessages(messages)
      /\ requests[i].body.stream = TRUE
      /\ requests[i].body.max_tokens = 8192
      /\ (requests[i].body.temperature = "0.2") <=> (op = "flowchart")

\* C23: over its whole lifetime a stream call issues at most one HTTP request
\* and starts at most one timer, one per request; a call that ended by an
\* error (transport failure, timeout, HTTP status, missing body) did not
\* issue the request again, and the error is the call's outcome.
C23_SingleRequestNoRetry ==
  /\ Len(requests) <= 1
  /\ nTimers = Len(requests)
  /\ requests # <<>> => Started
  /\ (pc = "failed") <=> (err # NoErr)
  /\ (timer = "fired" /\ Terminated) => pc = "failed"

\* C23 witness: a read of the body failed after one request, and the call
\* ended with the network error, one request issued.
C23_Witness ==
  /\ pc = "failed"
  /\ err = NetworkError
  /\ reader # "none"
  /\ pos > 0
  /\ Len(requests) = 1
  /\ nTimers = 1

(***************************************************************************)
(* updateSettings while a stream is in flight (checked under SpecSettings). *)
(***************************************************************************)
\* mutant of UpdateSettings: the new model id also replaces the one the
\* running stream resolved
UpdateSettingsLive(newSettings) ==
  /\ \E s \in newSettings :
       /\ settings' = s
       /\ model' = s.selectedModel
  /\ UNCHANGED <<op, messages, pc, systemPrompt, branch, path, requests, timer,
                 timeoutMs, nTimers, aborted, resp, err>>
  /\ UNCHANGED streamVars
  /\ UNCHANGED quizVars

\* aiService.updateSettings(newSettings): this.settings = newSettings
UpdateSettings(newSettings) ==
  /\ \E s \in newSettings : settings' = s
  /\ UNCHANGED streamAll
  /\ UNCHANGED quizVars

\* a second set of keys
OtherKeys ==
  [googleApiKey |-> "key2-google", zhipuApiKey |-> "key2-zhipu",
   mistralApiKey |-> "key2-mistral", groqApiKey |-> "key2-groq",
   cerebrasApiKey |-> "key2-cerebras"]

\* the settings in force when the stream is called
SettingsAtCall == Settings(AllKeys, MistralLargeLatest, "mentor")

\* the settings a user switches to: another provider, other keys, another
\* mode, no keys at all
SettingsUpdates ==
  { SettingsAtCall,
    Settings(OtherKeys, Gemini25Flash, "standard"),
    Settings(OtherKeys, MistralLargeLatest, "cosmic"),
    Settings([f \in KeyFields |-> ""], MistralLargeLatest, "mentor") }

\* a body of two fragments
TwoFragments == { Render(<<<<"D", "a">>, <<"D", "b">>>>, TRUE) }

InitSettings == InitWith({SettingsAtCall})

\* a stream is in flight from its call to its end
InFlight == pc \notin {"idle", "done", "failed", "returned"}

NextSettings ==
  \/ CallChat({<<Turn("user", "q1")>>})
  \/ CallFlowchart({<<Turn("user", "q1")>>})
  \/ (InFlight /\ UpdateSettings(SettingsUpdates))
  \/ StartChat
  \/ StartFlowchart
  \/ TimerFire
  \/ FetchAbort
  \/ FetchReject
  \/ FetchResolve(TwoFragments)
  \/ ReadChunk
  \/ ReadDone
  \/ ReadError
  \/ ProcessLine
  \/ ConsumerPull
  \/ ConsumerReturn

SpecSettings == InitSettings /\ [][NextSettings]_vars

\* the key a request carries
RequestKey(req) == IF req.body.shape = "google" THEN req.urlKey ELSE req.bearer

\* the model id a request carries
RequestModel(req) ==
  IF req.body.shape = "google" THEN req.urlModel ELSE req.body.model

\* the system prompt a request carries
RequestPrompt(req) ==
  IF req.body.shape = "google" THEN req.body.contents[1].text
  ELSE req.body.messages[1].content

IsTextSymbol(c) == c \in {"a", "b"}

\* the event texts among the symbols of s, in order
SymbolTexts(s) == SelectSeq(s, IsTextSymbol)

\* s can be obtained from t by dropping elements
RECURSIVE IsSubsequence(_, _)
IsSubsequence(s, t) ==
  IF s = <<>> THEN TRUE
  ELSE IF t = <<>> THEN FALSE
  ELSE IF Head(s) = Head(t) THEN IsSubsequence(Tail(s), Tail(t))
  ELSE IsSubsequence(s, Tail(t))

\* C25: the fragments handed to the consumer are, in order, texts of events
\* of the part of the body read so far; each step hands over at most one
\* fragment and then suspends the stream until the consumer pulls again; and
\* the next network read starts only when every line of the previous read has
\* been visited, so what is decoded but not yet delivered never spans more
\* than one read.
C25_OrderAndBackpressure ==
  /\ [](reader # "none" => IsSubsequence(yielded, SymbolTexts(SubSeq(body, 1, pos))))
  /\ [](pc = "reading" => lines = <<>>)
  /\ [][pos' # pos => (pc = "reading" /\ lines = <<>>)]_vars
  /\ [][yielded' # yielded =>
          /\ yielded' = Append(yielded, LineText(Head(lines)))
          /\ lines' = Tail(lines)
          /\ pc' = "yielded"]_vars
  /\ [][pc = "yielded" =>
          /\ pos' = pos
          /\ lines' = lines
          /\ yielded' = yielded
          /\ pc' \in {IF lines = <<>> THEN "reading" ELSE "loop", "returned"}]_vars

\* C25 witness: one read delivered two events; the consumer holds the first
\* fragment, the second waits in the line loop and no further read was made.
C25_Witness ==
  /\ body = <<"D", "a", "NL", "D", "b", "NL">>
  /\ pos = 6
  /\ pc = "yielded"
  /\ yielded = <<"a">>
  /\ lines = <<<<"D", "b">>>>

(***************************************************************************)
(* C26, C27: the prompt and the Google contents, for every tutor mode and  *)
(* every history of up to MaxTurns turns.                                  *)
(***************************************************************************)
MaxTurns == 3

\* the roles a history turn can carry
TurnRoles == {"user", "assistant", "system"}

\* every history of up to MaxTurns turns; turn i carries the text "i"
PromptHistories ==
  { [i \in 1..n |-> Turn(r[i], ToString(i))] :
      n \in 0..MaxTurns, r \in [1..MaxTurns -> TurnRoles] }

\* the tutor modes of the settings: the four registered ones and the two
\* that only detectBestMode knows
RegisteredModes == {"standard", "mentor", "cosmic", "ayanokoji"}
DetectedModes == {"standard", "exam", "mentor", "creative"}
PromptModes == RegisteredModes \cup DetectedModes

PromptSettings ==
  { Settings(AllKeys, m, mode) :
      m \in {Gemini25Flash, MistralLargeLatest}, mode \in PromptModes }

InitPrompt == InitWith(PromptSettings)

NextPrompt ==
  \/ CallChat(PromptHistories)
  \/ CallFlowchart(PromptHistories)
  \/ StartChat
  \/ StartFlowchart
  \/ TimerFire
  \/ FetchAbort
  \/ FetchReject
  \/ FetchResolve(FewBodies)
  \/ ReadChunk
  \/ ReadDone
  \/ ReadError
  \/ ProcessLine
  \/ ConsumerPull
  \/ ConsumerReturn

SpecPrompt == InitPrompt /\ [][NextPrompt]_vars

\* the Google requests sent so far
GoogleRequests ==
  { i \in 1..Len(requests) : requests[i].body.shape = "google" }

\* C26: the contents of a Google request are n+2 turns for a history of n
\* turns: a user turn holding the system prompt, a model turn holding the
\* acknowledgement, then the history in its order with 'assistant' mapped to
\* 'model' and every other role to 'user'; every role is 'user' or 'model';
\* the JSON response mime type is set by the flowchart operation only.
C26_GoogleContents ==
  \A i \in GoogleRequests :
    LET c == requests[i].body.contents
        n == Len(messages)
    IN /\ Len(c) = n + 2
       /\ c[1] = [role |-> "user", text |-> systemPrompt]
       /\ c[2].role = "model"
       /\ c[2].text = (IF op = "chat" THEN ChatAck ELSE FlowchartAck)
       /\ \A k \in 1..n :
            /\ c[k + 2].text = messages[k].content
            /\ c[k + 2].role =
                 (IF messages[k].role = "assistant" THEN "model" ELSE "user")
       /\ \A k \in 1..Len(c) : c[k].role \in {"user", "model"}
       /\ (requests[i].body.generationConfig = "responseMimeType: application/json")
            <=> (op = "flowchart")
       /\ (requests[i].body.generationConfig = "none") <=> (op = "chat")

\* a chat over Google with a history of three turns that has an assistant
\* turn and a system turn has sent its request
C26_Witness ==
  /\ op = "chat"
  /\ Len(messages) = 3
  /\ messages[2].role = "assistant"
  /\ messages[3].role = "system"
  /\ GoogleRequests # {}
  /\ Len(requests[1].body.contents) = 5
  /\ requests[1].body.contents[4].role = "model"
  /\ requests[1].body.contents[5].role = "user"

\* the template the claim names for a tutor mode
ClaimedPrompt(mode) ==
  IF mode \in RegisteredModes THEN TutorPrompts[mode] ELSE TutorPrompts.standard

\* C27: the system prompt of a chat is the template of the configured tutor
\* mode, the 'standard' template when the mode has none; the flowchart
\* operation uses its fixed raw-JSON prompt whatever the mode; the request
\* carries that prompt.
C27_PromptByMode ==
  /\ DOMAIN TutorPrompts = RegisteredModes
  /\ Routed =>
       /\ op = "chat" => systemPrompt = ClaimedPrompt(settings.selectedTutorMode)
       /\ op = "flowchart" => systemPrompt = FlowchartPrompt
       /\ systemPrompt \notin {"", Undefined}
       /\ \A i \in 1..Len(requests) : RequestPrompt(requests[i]) = systemPrompt

\* a chat under the unregistered mode 'exam' has sent the standard template
C27_Witness ==
  /\ op = "chat"
  /\ settings.selectedTutorMode = "exam"
  /\ Len(requests) = 1
  /\ RequestPrompt(requests[1]) = TutorPrompts.standard
  /\ systemPrompt = TutorPrompts.standard

(***************************************************************************)
(* C28: the answer index and the options it points into.                   *)
(***************************************************************************)
\* C28 as stated: in a returned session every correctAnswer is an index into
\* the options of its own question: 0 <= correctAnswer < number of options.
C28_AnswerIndexInRange ==
  (quizPc = "done") =>
    \A i \in 1..Len(session.questions) :
      /\ session.questions[i].correctAnswer >= 0
      /\ session.questions[i].correctAnswer < Len(session.questions[i].options)

(***************************************************************************)
(* C29: the timers of the streams and of generateQuiz, the two kinds of    *)
(* call running side by side on one service.                               *)
(***************************************************************************)
\* a few replies: the three unreadable ones, a quiz of one question, an
\* empty array, a value without an array
TimerReplies ==
  { [kind |-> k, parsed |-> JUndefined] :
      k \in {"not json", "no text", "text not json"} }
  \cup { [kind |-> "parsed", parsed |-> v] :
           v \in {JArr(OneList), JArr(<<>>), QText} }

\* every key set, for a Google and an OpenAI-compatible model; and no key
TimerSettings ==
  StreamSettings
  \cup { Settings([f \in KeyFields |-> ""], Gemini25Flash, "standard") }

InitTimers == InitWith(TimerSettings)

NextTimers ==
  \/ CallChat({<<>>, <<Turn("user", "q1")>>})
  \/ CallFlowchart({<<Turn("user", "q1")>>})
  \/ StartChat
  \/ StartFlowchart
  \/ TimerFire
  \/ FetchAbort
  \/ FetchReject
  \/ FetchResolve(FewBodies)
  \/ ReadChunk
  \/ ReadDone
  \/ ReadError
  \/ ProcessLine
  \/ ConsumerPull
  \/ ConsumerReturn
  \/ CallQuiz(Conversations)
  \/ QuizTimerFire
  \/ QuizFetchAbort
  \/ QuizFetchReject
  \/ QuizFetchResolve
  \/ QuizBody(TimerReplies)

SpecTimers == InitTimers /\ [][NextTimers]_vars

\* generateQuiz has settled
QuizEnded == quizPc \in {"done", "failed"}

\* C29: no timer outlives its call.  Once a stream or generateQuiz has ended
\* its timer is not pending; a call that started a timer and ended otherwise
\* than by the abort ended with the timer cleared; a timer fires, and abort
\* is called, only while its call awaits the fetch, never after the call
\* has ended.
C29_NoTimerOutlivesCall ==
  /\ [](Terminated => timer # "pending")
  /\ [](QuizEnded => quizTimer # "pending")
  /\ []((Terminated /\ nTimers > 0 /\ ~aborted) => timer = "cleared")
  /\ []((QuizEnded /\ quizRequests # <<>> /\ ~quizAborted) => quizTimer = "cleared")
  /\ [][((timer' = "fired" /\ timer # "fired") \/ (aborted' /\ ~aborted))
          => (pc = "fetching" /\ ~Terminated')]_vars
  /\ [][((quizTimer' = "fired" /\ quizTimer # "fired")
           \/ (quizAborted' /\ ~quizAborted))
          => (quizPc = "fetching" /\ ~QuizEnded')]_vars

\* a stream has ended by a network error with its timer cleared, and
\* generateQuiz has ended by the abort of its fired timer
C29_Witness ==
  /\ pc = "failed"
  /\ nTimers = 1
  /\ resp = NoResp
  /\ ~aborted
  /\ timer = "cleared"
  /\ quizPc = "failed"
  /\ quizAborted
  /\ quizTimer = "fired"

(***************************************************************************)
(* C30: the keys a stream call reads and sends (checked under SpecRoute,   *)
(* whose settings hold every key configuration for every model).           *)
(***************************************************************************)
\* the request the claim gives for a provider, from the operation, the model,
\* the history, the prompt and the key of that provider alone
ClaimedRequest(provider, url, o, m, msgs, sp, k) ==
  IF provider = "google"
    THEN [endpoint |-> url, urlModel |-> m, urlKey |-> k, bearer |-> "",
          body |-> [shape |-> "google",
                    contents |->
                      GoogleMessages(sp, IF o = "chat" THEN ChatAck
                                                       ELSE FlowchartAck, msgs),
                    generationConfig |->
                      IF o = "chat" THEN "none"
                      ELSE "responseMimeType: application/json"]]
    ELSE [endpoint |-> url, urlModel |-> <<>>, urlKey |-> "", bearer |-> k,
          body |-> [shape |-> "openai", model |-> m,
                    messages |-> <<[role |-> "system", content |-> sp]>> \o msgs,
                    stream |-> TRUE, max_tokens |-> 8192, temperature |-> "0.2"]]

\* the settings fields whose key a request carries
KeysSentIn(req) ==
  { f \in KeyFields :
      /\ ~KeyMissing(settings[f])
      /\ settings[f] \in {req.urlKey, req.bearer} }

\* C30: a stream call that resolved to a provider reads the key of that
\* provider only.  With that key missing it fails with the provider's
\* missing-key error and sends nothing; with it set it sends one request,
\* which is the one given by the operation, the model, the history and that
\* key, whatever the other four keys are; the only key a request carries is
\* the key of the provider its endpoint belongs to.
C30_OnlyResolvedKey ==
  /\ \A i \in 1..Len(requests) :
       /\ EndpointProvider(requests[i].endpoint) \in ProviderNames
       /\ KeysSentIn(requests[i]) =
            {KeyFieldOf[EndpointProvider(requests[i].endpoint)]}
  /\ (Routed /\ branch # NoBranch) =>
       LET k == settings[KeyFieldOf[branch.provider]]
       IN IF KeyMissing(k)
            THEN /\ requests = <<>>
                 /\ pc = "failed"
                 /\ err.text \in MissingKeyTexts[branch.provider]
            ELSE requests =
                   <<ClaimedRequest(branch.provider, branch.endpoint, op, model,
                                    UserMessages(messages), systemPrompt, k)>>

\* a Mistral chat has sent its request with the Mistral key while the keys
\* of the four other providers are not set
C30_Witness ==
  /\ \A f \in KeyFields \ {"mistralApiKey"} : settings[f] = ""
  /\ branch.provider = "mistral"
  /\ Len(requests) = 1
  /\ requests[1].bearer = Keys.mistralApiKey
  /\ pc = "done"

============================================================================
